---- MODULE Spec2Model ----
(***************************************************************************)
(* Beam-search caption decoding, generate_caption of src/evaluation.py.    *)
(*                                                                         *)
(* The sequence model and the tokenizer are external collaborators.  The   *)
(* model is represented by a deterministic stub: a table that gives, for   *)
(* the last token of a prefix, the next-token distribution.  A probability *)
(* is a whole number of sixteenths (the integer k stands for k/16, a       *)
(* distribution sums to 16): binary floating point represents and adds     *)
(* these exactly, so two scores are equal here exactly when the floats of  *)
(* the code are.  A beam is the pair (token list, score) of the source,    *)
(* written as a record.                                                    *)
(***************************************************************************)
EXTENDS Integers, Sequences, FiniteSets, TLC

\* ---------------------------------------------------------------- bounds
MaxSteps == 5
MaxBeam == 3

\* ------------------------------------------------------------ vocabulary
BOS == 0
EOS == 3
Vocab == 0..3
Special == {BOS, EOS}

\* The unit of probability: the integer k stands for the float k/16.
ProbUnit == 16

\* Next-token distributions the stub may answer with, indexed by token + 1
\* (BOS, the, cat, EOS), in sixteenths.  All probabilities of a distribution
\* differ, so the result of topk does not depend on how the library orders
\* equal values.  Flat and peaked distributions, with the end token first,
\* third and last.
Dists ==
    { <<1, 7, 5, 3>>,
      <<3, 1, 12, 0>>,
      <<1, 3, 5, 7>>,
      <<5, 7, 3, 1>>,
      <<5, 3, 8, 0>>,
      <<2, 0, 1, 13>> }

Stubs == [Vocab -> Dists]

VARIABLES model, max_seq_len, beam_width, beam_size, beams, new_beams,
          completed, step, pc, target_tokens, caption, print_process, printed

vars == <<model, max_seq_len, beam_width, beam_size, beams, new_beams,
          completed, step, pc, target_tokens, caption, print_process, printed>>

\* ------------------------------------------------------- pure operators
Last(s) == s[Len(s)]

Take(s, n) == SubSeq(s, 1, IF n < Len(s) THEN n ELSE Len(s))

RemoveAt(s, i) == SubSeq(s, 1, i - 1) \o SubSeq(s, i + 1, Len(s))

\* list.remove(x): drops the first element equal to x
IndexOf(s, x) == CHOOSE i \in 1..Len(s) : s[i] = x /\ \A j \in 1..(i - 1) : s[j] # x

Remove(s, x) == RemoveAt(s, IndexOf(s, x))

\* decoder + fc + softmax, last position: the distribution for a prefix
Pred(m, tokens) == m[Last(tokens)]

\* pred.topk(k): the k most probable tokens, most probable first
RECURSIVE TopKFrom(_, _, _)
TopKFrom(pred, k, avail) ==
    IF k <= 0 \/ avail = {} THEN <<>>
    ELSE LET best == CHOOSE t \in avail :
                        \A u \in avail : \/ pred[t + 1] > pred[u + 1]
                                         \/ pred[t + 1] = pred[u + 1] /\ t <= u
         IN  <<best>> \o TopKFrom(pred, k - 1, avail \ {best})

TopK(pred, k) == TopKFrom(pred, k, Vocab)

\* topk called with the configured width instead of the current beam_size
ChildrenConfiguredWidth(m, beam, k) ==
    LET pred == Pred(m, beam.tokens)
        top  == TopK(pred, beam_width)
    IN  [i \in 1..Len(top) |->
            [tokens |-> Append(beam.tokens, top[i]),
             score  |-> beam.score + pred[top[i] + 1]]]

\* the score of a child taken from the token alone, the parent's score dropped
ChildrenNoAccumulate(m, beam, k) ==
    LET pred == Pred(m, beam.tokens)
        top  == TopK(pred, k)
    IN  [i \in 1..Len(top) |->
            [tokens |-> Append(beam.tokens, top[i]),
             score  |-> pred[top[i] + 1]]]

\* the children of one beam: its top-k next tokens appended, scores added
Children(m, beam, k) ==
    LET pred == Pred(m, beam.tokens)
        top  == TopK(pred, k)
    IN  [i \in 1..Len(top) |->
            [tokens |-> Append(beam.tokens, top[i]),
             score  |-> beam.score + pred[top[i] + 1]]]

\* the candidates of a step: the children of every beam, in beam order
RECURSIVE ExpandAll(_, _, _)
ExpandAll(m, bs, k) ==
    IF bs = <<>> THEN <<>>
    ELSE Children(m, bs[1], k) \o ExpandAll(m, Tail(bs), k)

\* sorted(..., key=score, reverse=True): stable, equal scores keep their order
RECURSIVE InsertDesc(_, _)
InsertDesc(s, b) ==
    IF s = <<>> THEN <<b>>
    ELSE IF s[1].score >= b.score THEN <<s[1]>> \o InsertDesc(Tail(s), b)
    ELSE <<b>> \o s

RECURSIVE SortDesc(_)
SortDesc(s) ==
    IF s = <<>> THEN <<>>
    ELSE InsertDesc(SortDesc(SubSeq(s, 1, Len(s) - 1)), s[Len(s)])

\* sorted(beams, key=...)[::-1][:beam_size]: an ascending sort read backwards,
\* which puts the later of two equal scores first
RECURSIVE Reversed(_)
Reversed(s) == IF s = <<>> THEN <<>> ELSE Append(Reversed(Tail(s)), s[1])

PruneOpReversed(cands, k) == Take(SortDesc(Reversed(cands)), k)

\* the slice [:beam_size] left out
PruneOpNoCut(cands, k) == SortDesc(cands)

\* sorted(beams, ...)[:beam_size]
PruneOp(cands, k) == Take(SortDesc(cands), k)

\* "for beam in beams: if ends in eos: completed.append; beams.remove;
\*  beam_size -= 1".  The list iterator keeps an index i into the list that is
\* being shortened, so the element after a removed one is not visited.
RECURSIVE HarvestLoop(_, _, _, _)
HarvestLoop(bs, i, comp, k) ==
    IF i > Len(bs) THEN [beams |-> bs, completed |-> comp, beam_size |-> k]
    ELSE IF Last(bs[i].tokens) = EOS
         THEN HarvestLoop(Remove(bs, bs[i]), i + 1, Append(comp, bs[i]), k - 1)
         ELSE HarvestLoop(bs, i + 1, comp, k)

\* "beam_size -= 1" left out
HarvestOpNoDecrement(bs, comp, k) == [HarvestLoop(bs, 1, comp, k) EXCEPT !.beam_size = k]

\* "beams.remove(beam)" left out
HarvestOpNoRemove(bs, comp, k) == [HarvestLoop(bs, 1, comp, k) EXCEPT !.beams = bs]

HarvestOp(bs, comp, k) == HarvestLoop(bs, 1, comp, k)

\* the break of lines 77-78 left out
LoopContinuesNoBreak(n, max, k) == n < max

\* one iteration too many
LoopContinuesOffByOne(n, max, k) == k # 0 /\ n <= max

\* the loop goes on: no break (beam_size == 0) and range(max_seq_len) not used up
LoopContinues(n, max, k) == k # 0 /\ n < max

\* the sort of line 82 without reverse=True: the lowest score comes first
BestLowest(comp) == SortDesc(comp)[Len(comp)]

\* an unstable sort at line 82: of equal best scores the latest comes first
BestLastOfTies(comp) ==
    LET s == SortDesc(comp)
    IN  s[CHOOSE n \in DOMAIN s :
            s[n].score = s[1].score /\ \A j \in DOMAIN s : s[j].score = s[1].score => j <= n]

\* lines 82-84: completed.sort(reverse=True); completed[0]
Best(comp) == SortDesc(comp)[1]

\* tokenizer.decode(tokens, skip_special_tokens=True)
Decode(tokens) == SelectSeq(tokens, LAMBDA t : t \notin Special)

\* line 35: the initial beam, the begin token with score 0
InitBeam == [tokens |-> << BOS >>, score |-> 0]

\* The loop of lines 38-78 as a function of the inputs: the lists and the
\* beam size after n iterations (fewer when the loop broke earlier), with the
\* candidates of the last iteration that ran.
RECURSIVE LoopState(_, _, _)
LoopState(m, w, n) ==
    IF n = 0
    THEN [beams |-> << InitBeam >>, completed |-> <<>>,
          beam_size |-> w, new_beams |-> <<>>, step |-> 0]
    ELSE LET p == LoopState(m, w, n - 1)
         IN  IF p.step < n - 1 \/ (n > 1 /\ ~LoopContinues(n - 1, n, p.beam_size)) THEN p
             ELSE LET c == ExpandAll(m, p.beams, p.beam_size)
                      h == HarvestOp(PruneOp(c, p.beam_size), p.completed, p.beam_size)
                  IN  [beams |-> h.beams, completed |-> h.completed,
                       beam_size |-> h.beam_size, new_beams |-> c, step |-> n]

\* --------------------------------------------------------------- actions
\* the call: any stub, max_seq_len and beam_size within the bounds
Init ==
    /\ model \in Stubs
    /\ max_seq_len \in 1..MaxSteps
    /\ beam_width \in 1..MaxBeam
    /\ beam_size = beam_width
    /\ beams = << InitBeam >>
    /\ new_beams = <<>>
    /\ completed = <<>>
    /\ step = 0
    /\ pc = IF 0 < max_seq_len THEN "expand" ELSE "select"
    /\ target_tokens = <<>>
    /\ caption = <<>>
    /\ print_process \in BOOLEAN
    /\ printed = <<>>

\* lines 39-55: one pass over the beams, collecting the candidates
Expand ==
    /\ pc = "expand"
    /\ step' = step + 1
    /\ new_beams' = ExpandAll(model, beams, beam_size)
    /\ pc' = "prune"
    /\ UNCHANGED <<model, max_seq_len, beam_width, beam_size, beams, completed,
                   target_tokens, caption, print_process, printed>>

\* lines 57-60: sort by score and keep the first beam_size
Prune ==
    /\ pc = "prune"
    /\ beams' = PruneOp(new_beams, beam_size)
    /\ pc' = "harvest"
    /\ UNCHANGED <<model, max_seq_len, beam_width, beam_size, new_beams,
                   completed, step, target_tokens, caption, print_process, printed>>

\* lines 61-66: move finished beams to completed
Harvest ==
    /\ pc = "harvest"
    /\ LET h == HarvestOp(beams, completed, beam_size)
       IN  /\ beams' = h.beams
           /\ completed' = h.completed
           /\ beam_size' = h.beam_size
    /\ pc' = "check"
    /\ UNCHANGED <<model, max_seq_len, beam_width, new_beams, step,
                   target_tokens, caption, print_process, printed>>

\* lines 70-75: what one step prints (decode without skip_special_tokens
\* keeps every token)
Report(n, max, k, bs, comp) ==
    [step |-> n, of |-> max, beam_size |-> k,
     beams |-> [i \in DOMAIN bs |-> bs[i].tokens],
     completed |-> [i \in DOMAIN comp |-> comp[i].tokens],
     scores |-> [i \in DOMAIN bs |-> bs[i].score]]

\* the print block rebinding beams to the decoded texts it prints
CheckRebinds ==
    /\ pc = "check"
    /\ printed' = IF print_process
                  THEN Append(printed, Report(step, max_seq_len, beam_size, beams, completed))
                  ELSE printed
    /\ beams' = IF print_process
                THEN [i \in DOMAIN beams |-> [tokens |-> Decode(beams[i].tokens),
                                              score |-> beams[i].score]]
                ELSE beams
    /\ pc' = IF LoopContinues(step, max_seq_len, beam_size) THEN "expand" ELSE "select"
    /\ UNCHANGED <<model, max_seq_len, beam_width, beam_size, new_beams,
                   completed, step, target_tokens, caption, print_process>>

\* lines 68-78 and the loop header of line 38: the progress print, the break
Check ==
    /\ pc = "check"
    /\ printed' = IF print_process
                  THEN Append(printed, Report(step, max_seq_len, beam_size, beams, completed))
                  ELSE printed
    /\ pc' = IF LoopContinues(step, max_seq_len, beam_size) THEN "expand" ELSE "select"
    /\ UNCHANGED <<model, max_seq_len, beam_width, beam_size, beams, new_beams,
                   completed, step, target_tokens, caption, print_process>>

\* lines 81-87: sort completed, take completed[0][0] (IndexError when empty)
Select ==
    /\ pc = "select"
    /\ completed' = SortDesc(completed)
    /\ IF completed = <<>>
       THEN /\ pc' = "IndexError"
            /\ UNCHANGED <<target_tokens, caption>>
       ELSE /\ pc' = "returned"
            /\ target_tokens' = Best(completed).tokens
            /\ caption' = Decode(target_tokens')
    /\ UNCHANGED <<model, max_seq_len, beam_width, beam_size, beams, new_beams, step,
                   print_process, printed>>

Next == Expand \/ Prune \/ Harvest \/ Check \/ Select

Spec == Init /\ [][Next]_vars

Running == {"expand", "prune", "harvest", "check", "select"}
Ended == {"returned", "IndexError"}

\* The position in the code moves on: every statement of the call is followed
\* by the next one until the call returns or raises.
Advance == pc \in Running /\ pc' \in (Running \cup Ended) \ {pc}

\* The same program under fairness, for the claims about runs that end: the
\* call is sequential code, so while it has not ended its position advances.
FairSpec == Init /\ [][Next]_vars /\ WF_pc(Advance)

\* The call with any configuration, also beam_size 0 and max_seq_len 0 or
\* below: the code takes the arguments as they come (lines 25-38).
InitCfg ==
    /\ model \in Stubs
    /\ max_seq_len \in -1..MaxSteps
    /\ beam_width \in 0..MaxBeam
    /\ beam_size = beam_width
    /\ beams = << InitBeam >>
    /\ new_beams = <<>>
    /\ completed = <<>>
    /\ step = 0
    /\ pc = IF 0 < max_seq_len THEN "expand" ELSE "select"
    /\ target_tokens = <<>>
    /\ caption = <<>>
    /\ print_process \in BOOLEAN
    /\ printed = <<>>

SpecCfg == InitCfg /\ [][Next]_vars

\* ----------------------------------------------------------- properties
TypeOK ==
    /\ pc \in Running \cup Ended
    /\ step \in 0..max_seq_len
    /\ beam_size \in 0..beam_width
    /\ \A t \in Vocab : model[t][1] + model[t][2] + model[t][3] + model[t][4] = ProbUnit

EndsInEOS(b) == Last(b.tokens) = EOS

Finished(bs) == {i \in DOMAIN bs : EndsInEOS(bs[i])}

\* the loop of the actions and the loop as a function agree
LoopStateAgrees ==
    pc \in {"check", "select"} =>
        LET l == LoopState(model, beam_width, step)
        IN  /\ l.step = step
            /\ l.beams = beams
            /\ l.completed = completed
            /\ l.beam_size = beam_size
            /\ l.new_beams = new_beams

\* ------------------------------------------------------------------ C1
\* C1: a run whose CompletionSet is empty at the end returns the tokens of the
\* highest-scoring beam left in active; it does not fail.
C1_FallbackReturns ==
    (pc \in Ended /\ completed = <<>>) =>
        /\ pc = "returned"
        /\ beams # <<>>
        /\ target_tokens = SortDesc(beams)[1].tokens

\* ------------------------------------------------------------------ C2
\* C2: the harvest of a step leaves no beam ending in the end token in active,
\* puts every such beam of the pruned frontier into CompletionSet and lowers
\* capacity by the number of such beams.
C2_HarvestPartitions ==
    [][pc = "harvest" =>
         /\ Finished(beams') = {}
         /\ \A i \in Finished(beams) :
                \E j \in DOMAIN completed' : completed'[j] = beams[i]
         /\ beam_size' = beam_size - Cardinality(Finished(beams))]_vars

\* ------------------------------------------------------------------ C3
\* the scenario of the specification: the=1, cat=2, beam width 2, 4 steps
Path == <<0, 1, 2, 3>>

ScenarioConfig == beam_width = 2 /\ max_seq_len = 4

\* in iteration k the candidate with tokens toks has the strictly highest score
Leads(m, w, k, toks) ==
    LET l == LoopState(m, w, k)
        c == l.new_beams
    IN  /\ l.step = k
        /\ \E i \in DOMAIN c :
              /\ c[i].tokens = toks
              /\ \A j \in DOMAIN c \ {i} : c[j].score < c[i].score

PathLeads(m) == \A k \in 1..3 : Leads(m, 2, k, SubSeq(Path, 1, k + 1))

PathScore(m) ==
    LET c == LoopState(m, 2, 3).new_beams
    IN  c[CHOOSE i \in DOMAIN c : c[i].tokens = Path].score

\* no candidate of the fourth iteration, if it runs, reaches the path's score
PathStaysAhead(m) ==
    LET l == LoopState(m, 2, 4)
    IN  l.step = 4 => \A j \in DOMAIN l.new_beams : l.new_beams[j].score < PathScore(m)

ReturnsPath == pc = "returned" /\ target_tokens = Path /\ caption = <<1, 2>>

\* C3 as claimed: the path BOS,the,cat,EOS is the strictly highest-scoring
\* candidate of steps 1 to 3, and the run returns it whatever step 4 does.
C3_ScenarioAsClaimed ==
    (pc \in Ended /\ ScenarioConfig /\ PathLeads(model)) => ReturnsPath

\* C3 amended: if moreover no candidate of step 4 reaches the score of the
\* completed path, the run returns BOS,the,cat,EOS, caption "the cat".
C3_Scenario ==
    (pc \in Ended /\ ScenarioConfig /\ PathLeads(model) /\ PathStaysAhead(model))
        => ReturnsPath

\* the scenario ran all four steps, the other beam was expanded in step 4
C3_Witness ==
    /\ pc = "returned" /\ ScenarioConfig /\ step = 4
    /\ PathLeads(model) /\ PathStaysAhead(model)
    /\ target_tokens = Path

\* ------------------------------------------------------------------ C4
\* the greedy decoder: append the most probable next token until the end
\* token was appended or n tokens were appended
Argmax(pred) == CHOOSE t \in Vocab : \A u \in Vocab \ {t} : pred[t + 1] > pred[u + 1]

RECURSIVE Greedy(_, _, _)
Greedy(m, toks, n) ==
    IF n = 0 \/ (Len(toks) > 1 /\ Last(toks) = EOS) THEN toks
    ELSE Greedy(m, Append(toks, Argmax(m[Last(toks)])), n - 1)

\* C4: with beam width 1 the run returns the greedy sequence.
C4_GreedyEquivalence ==
    (pc \in Ended /\ beam_width = 1) =>
        /\ pc = "returned"
        /\ target_tokens = Greedy(model, << BOS >>, max_seq_len)

\* ------------------------------------------------------------------ C5
\* the work left: a natural number that every step of the run lowers
Variant ==
    IF pc \in Ended THEN 0
    ELSE 5 * (max_seq_len - step) +
         (CASE pc = "expand" -> 1 [] pc = "select" -> 2 [] pc = "check" -> 3
            [] pc = "harvest" -> 4 [] pc = "prune" -> 5)

\* C5: every run ends (it reaches its end, and each step lowers the work
\* left); the loop is left exactly after the first harvest that leaves
\* capacity 0 or completes step max_steps, and no expansion starts with
\* capacity 0 or after max_steps steps.
C5_Termination ==
    /\ <>(pc \in Ended)
    /\ [](Variant \in Nat)
    /\ [][Variant' < Variant]_vars
    /\ [](pc = "expand" => beam_size > 0 /\ step < max_seq_len)
    /\ [][pc = "check" =>
            (pc' = "select" <=> (beam_size = 0 \/ step = max_seq_len))]_vars

\* the loop was left by the break, before max_steps
C5_Witness == pc = "select" /\ beam_size = 0 /\ step < max_seq_len /\ step > 1

\* ------------------------------------------------------------------ C6
\* C6: capacity + |CompletionSet| = beam width in every state; capacity never
\* grows and drops by one for each beam appended to CompletionSet.
C6_CapacityAccounting ==
    /\ [](beam_size + Len(completed) = beam_width /\ beam_size >= 0)
    /\ [][/\ beam_size' <= beam_size
           /\ Len(completed') - Len(completed) = beam_size - beam_size']_vars

\* all slots were filled by completions, over more than one step
C6_Witness ==
    /\ pc = "check" /\ beam_size = 0 /\ beam_width = 3
    /\ Len(completed) = 3
    /\ Len(completed[1].tokens) < Len(completed[3].tokens)

\* ------------------------------------------------------------------ C7
\* C7: after pruning and after harvest, |active| <= capacity.
C7_ActiveBound == pc \in {"harvest", "check"} => Len(beams) <= beam_size

\* a harvest has lowered capacity and active fills what is left
C7_Witness ==
    /\ pc = "check" /\ 0 < beam_size /\ beam_size < beam_width
    /\ Len(beams) = beam_size
    /\ Len(completed) > 0 /\ completed[Len(completed)].tokens \in {new_beams[i].tokens : i \in DOMAIN new_beams}

\* ------------------------------------------------------------------ C8
\* C8: a token sequence in CompletionSet is not in active, and CompletionSet
\* holds no token sequence twice.
C8_NoDoubleCompletion ==
    /\ \A i \in DOMAIN completed : \A j \in DOMAIN beams :
          beams[j].tokens # completed[i].tokens
    /\ \A i, j \in DOMAIN completed :
          i # j => completed[i].tokens # completed[j].tokens

\* the run went on for two steps after a completion, and completed again
C8_Witness ==
    /\ pc = "check" /\ Len(completed) >= 2 /\ Len(beams) >= 1
    /\ Len(completed[1].tokens) + 2 <= Len(beams[1].tokens)

\* ------------------------------------------------------------------ C9
\* C9: the returned sequence has at most max_steps tokens after the begin token.
C9_BoundedLength == pc = "returned" => Len(target_tokens) - 1 <= max_seq_len

\* a returned sequence of exactly max_steps tokens after the begin token
C9_Witness ==
    pc = "returned" /\ max_seq_len >= 3 /\ Len(target_tokens) - 1 = max_seq_len

\* ----------------------------------------------------------------- C11
\* C11: a call with beam_width < 1 or max_steps < 1 ends in a configuration
\* error, with no loop iteration run and active, capacity and CompletionSet
\* as they were at the start.
C11_ConfigRejected ==
    (pc \in Ended /\ (beam_width < 1 \/ max_seq_len < 1)) =>
        /\ pc = "ConfigurationError"
        /\ step = 0
        /\ beams = << InitBeam >> /\ beam_size = beam_width /\ completed = <<>>

\* ----------------------------------------------------------------- C12
\* C12: the diagnostics change no algorithm state, and after every step
\* active, capacity and CompletionSet, and at the end the returned sequence,
\* are what the inputs without the diagnostics flag determine.
C12_DiagnosticsNoEffect ==
    /\ [][pc = "check" => UNCHANGED <<beams, beam_size, completed, new_beams, step>>]_vars
    /\ [](pc \in {"check", "expand", "select"} /\ step > 0 =>
            LET l == LoopState(model, beam_width, step)
            IN  l.beams = beams /\ l.beam_size = beam_size /\ l.completed = completed)
    /\ [](pc = "returned" =>
            target_tokens = Best(LoopState(model, beam_width, step).completed).tokens)

\* a run with diagnostics on has printed every step and returned
C12_Witness ==
    /\ pc = "returned" /\ print_process /\ step >= 3
    /\ Len(printed) = step
    /\ printed[step].beams # <<>>

\* ----------------------------------------------------------------- C13
\* C13: with CompletionSet non-empty at termination, the returned sequence is
\* the entry with the maximum score, and of entries with that score the one
\* appended earliest.
C13_FinalSelection ==
    [][(pc = "select" /\ completed # <<>>) =>
         /\ pc' = "returned"
         /\ \E i \in DOMAIN completed :
               /\ target_tokens' = completed[i].tokens
               /\ \A j \in DOMAIN completed : completed[j].score <= completed[i].score
               /\ \A j \in 1..(i - 1) : completed[j].score < completed[i].score]_vars

\* a run returned with two completed beams sharing the maximum score
C13_Witness ==
    /\ pc = "returned" /\ Len(completed) >= 2
    /\ completed[1].score = completed[2].score
    /\ target_tokens = completed[1].tokens

\* ----------------------------------------------------------------- C14
\* position of a candidate in the list of candidates (candidates differ)
CandIdx(b) == CHOOSE i \in DOMAIN new_beams : new_beams[i] = b

\* candidate i comes before candidate j in the stable descending order
Before(i, j) ==
    \/ new_beams[i].score > new_beams[j].score
    \/ new_beams[i].score = new_beams[j].score /\ i < j

\* C14: pruning keeps exactly the first `capacity` candidates of the stable
\* descending order: the frontier is ordered that way, no discarded candidate
\* scores higher than a kept one, and of equal scores the earlier is kept.
C14_Pruning ==
    [][pc = "prune" =>
         LET kept == {i \in DOMAIN new_beams : \E p \in DOMAIN beams' : beams'[p] = new_beams[i]}
         IN  /\ Len(beams') = IF beam_size < Len(new_beams) THEN beam_size ELSE Len(new_beams)
             /\ Cardinality(kept) = Len(beams')
             /\ \A p, q \in DOMAIN beams' :
                   p < q => Before(CandIdx(beams'[p]), CandIdx(beams'[q]))
             /\ \A i \in kept : \A j \in DOMAIN new_beams \ kept : Before(i, j)]_vars

\* a candidate was discarded that scored the same as a kept one
C14_Witness ==
    /\ pc = "harvest"
    /\ \E i, j \in DOMAIN new_beams :
          /\ new_beams[i].score = new_beams[j].score
          /\ \E p \in DOMAIN beams : beams[p] = new_beams[i]
          /\ \A p \in DOMAIN beams : beams[p] # new_beams[j]

\* ----------------------------------------------------------------- C15
\* token t is among the k most probable next tokens after the prefix toks
AmongTop(toks, t, k) ==
    LET pred == model[Last(toks)]
    IN  Cardinality({u \in Vocab : pred[u + 1] > pred[t + 1]}) < k

\* C15: a step gives every active beam exactly `capacity` children, capacity
\* being the value left by the previous harvest: |active| x capacity
\* candidates, each a parent with one of its top-`capacity` tokens appended,
\* the children of a parent differing in that token.
C15_ExpansionWidth ==
    [][pc = "expand" =>
         /\ Len(new_beams') = Len(beams) * beam_size
         /\ \A p \in DOMAIN beams : \A i \in 1..beam_size :
               LET c == new_beams'[(p - 1) * beam_size + i]
               IN  /\ Len(c.tokens) = Len(beams[p].tokens) + 1
                   /\ SubSeq(c.tokens, 1, Len(beams[p].tokens)) = beams[p].tokens
                   /\ AmongTop(beams[p].tokens, Last(c.tokens), beam_size)
                   /\ \A j \in 1..beam_size :
                         j # i => new_beams'[(p - 1) * beam_size + j].tokens # c.tokens]_vars

\* after a harvest took one of three slots, two beams gave two children each
C15_Witness ==
    /\ pc = "prune" /\ beam_width = 3 /\ beam_size = 2
    /\ Len(beams) = 2 /\ Len(new_beams) = 4

\* ----------------------------------------------------------------- C16
\* the sum of the probabilities the stub gave to the tokens after the first
RECURSIVE ProbSum(_)
ProbSum(toks) ==
    IF Len(toks) <= 1 THEN 0
    ELSE ProbSum(SubSeq(toks, 1, Len(toks) - 1))
         + model[toks[Len(toks) - 1]][toks[Len(toks)] + 1]

\* C16: the initial beam has score 0, and the score of every beam in active
\* and in CompletionSet is the sum of the probabilities of its tokens after
\* the begin token.
C16_AdditiveScoring ==
    /\ step = 0 => beams = << [tokens |-> << BOS >>, score |-> 0] >>
    /\ \A i \in DOMAIN beams : beams[i].score = ProbSum(beams[i].tokens)
    /\ \A i \in DOMAIN completed : completed[i].score = ProbSum(completed[i].tokens)

\* beams of four tokens and more, in active and in CompletionSet
C16_Witness ==
    /\ pc = "check" /\ step >= 3
    /\ completed # <<>> /\ beams # <<>>
    /\ Len(completed[Len(completed)].tokens) >= 4
    /\ beams[1].score = ProbSum(beams[1].tokens)

\* ----------------------------------------------------------------- C17
EOSCount(toks) == Cardinality({i \in DOMAIN toks : toks[i] = EOS})

\* C17: no beam handed to the model for expansion contains the end token, and
\* every sequence in CompletionSet contains it exactly once, as its last token.
C17_CompletedNotExpanded ==
    /\ pc = "expand" => \A i \in DOMAIN beams : EOSCount(beams[i].tokens) = 0
    /\ \A i \in DOMAIN completed :
          EOSCount(completed[i].tokens) = 1 /\ Last(completed[i].tokens) = EOS

\* ----------------------------------------------------------------- C18
\* C18: after every completed step t >= 1 the number of active beams equals
\* capacity, the active token sequences differ pairwise, and each has t + 1
\* tokens, the first being the begin token; so active is empty exactly when
\* capacity is 0.
C18_FrontierFull ==
    (pc \in {"check", "expand", "select"} /\ step >= 1) =>
        /\ Len(beams) = beam_size
        /\ \A i, j \in DOMAIN beams : i # j => beams[i].tokens # beams[j].tokens
        /\ \A i \in DOMAIN beams :
              Len(beams[i].tokens) = step + 1 /\ beams[i].tokens[1] = BOS
        /\ (beams = <<>> <=> beam_size = 0)

\* after a harvest lowered capacity, a later step again filled the frontier
C18_Witness ==
    /\ pc = "check" /\ step = 4 /\ beam_width = 3
    /\ beam_size = 2 /\ Len(beams) = 2
    /\ Len(completed[1].tokens) <= 3
====
